---- MODULE Spec2Model ----
(***************************************************************************)
(* Model of scripts/grab_webtoon.py: the chapter acquisition pipeline      *)
(* (fetch, extract_image_urls, is_image_bytes, download_images, run_cli).  *)
(*                                                                         *)
(* Text is modelled as sequences of one-character strings, payloads as     *)
(* sequences of byte values 0..255, and time as integer milliseconds.      *)
(***************************************************************************)
EXTENDS Integers, Sequences, FiniteSets, TLC

(***************************************************************************)
(* Generic text helpers (Python str/bytes methods used by the script).     *)
(***************************************************************************)
\* Python's None for a value that is otherwise a character sequence.
None == <<"None">>

\* Python's None for a value that is otherwise an exception name.
NoExc == "None"

Max(a, b) == IF a >= b THEN a ELSE b

Take(s, n) == SubSeq(s, 1, IF Len(s) < n THEN Len(s) ELSE n)

StartsWith(s, p) == Len(s) >= Len(p) /\ SubSeq(s, 1, Len(p)) = p

EndsWith(s, p) == Len(s) >= Len(p) /\ SubSeq(s, Len(s) - Len(p) + 1, Len(s)) = p

Contains(s, sub) ==
    \E k \in 1..(Len(s) - Len(sub) + 1) : SubSeq(s, k, k + Len(sub) - 1) = sub

UpperLetters ==
    <<"A","B","C","D","E","F","G","H","I","J","K","L","M",
      "N","O","P","Q","R","S","T","U","V","W","X","Y","Z">>

LowerLetters ==
    <<"a","b","c","d","e","f","g","h","i","j","k","l","m",
      "n","o","p","q","r","s","t","u","v","w","x","y","z">>

LowerChar(c) ==
    IF \E k \in 1..Len(UpperLetters) : UpperLetters[k] = c
    THEN LowerLetters[CHOOSE k \in 1..Len(UpperLetters) : UpperLetters[k] = c]
    ELSE c

Lower(s) == [k \in 1..Len(s) |-> LowerChar(s[k])]

Digits == <<"0","1","2","3","4","5","6","7","8","9">>

IsDigit(c) == \E k \in 1..Len(Digits) : Digits[k] = c

DigitVal(c) == (CHOOSE k \in 1..Len(Digits) : Digits[k] = c) - 1

\* int(g) for a string of decimal digits
RECURSIVE ToInt(_)
ToInt(s) ==
    IF Len(s) = 0 THEN 0
    ELSE 10 * ToInt(SubSeq(s, 1, Len(s) - 1)) + DigitVal(s[Len(s)])

\* str(n) for n >= 0
RECURSIVE ToStr(_)
ToStr(n) ==
    IF n < 10 THEN <<Digits[n + 1]>>
    ELSE Append(ToStr(n \div 10), Digits[(n % 10) + 1])

\* f"{n:0{width}d}"
RECURSIVE ZeroPad(_, _)
ZeroPad(s, width) == IF Len(s) >= width THEN s ELSE ZeroPad(<<"0">> \o s, width)

\* ASCII whitespace removed by bytes.lstrip()
WhitespaceBytes == {9, 10, 11, 12, 13, 32}

RECURSIVE LStrip(_)
LStrip(b) ==
    IF Len(b) > 0 /\ b[1] \in WhitespaceBytes THEN LStrip(Tail(b)) ELSE b

(***************************************************************************)
(* is_image_bytes                                                          *)
(***************************************************************************)
JpegMagic == <<255, 216, 255>>
PngMagic  == <<137, 80, 78, 71, 13, 10, 26, 10>>
RiffMagic == <<82, 73, 70, 70>>
WebpTag   == <<87, 69, 66, 80>>
LtByte    == <<60>>
BraceByte == <<123>>
LtBang    == <<60, 33>>
ImagePrefix == <<"i","m","a","g","e","/">>

\* the signature test of is_image_bytes, lines 153-158
SignatureOk(data) ==
    LET sig == Take(data, 16) IN
    /\ \/ StartsWith(sig, JpegMagic)
       \/ StartsWith(sig, PngMagic)
       \/ (StartsWith(sig, RiffMagic) /\ Contains(Take(data, 64), WebpTag))
    /\ ~ \/ StartsWith(LStrip(sig), LtByte)
         \/ StartsWith(LStrip(sig), BraceByte)
         \/ StartsWith(LStrip(sig), LtBang)

\* the declared-type test of is_image_bytes, lines 151-152
CtypeIsImage(ctype) ==
    ctype # None /\ ctype # <<>> /\ StartsWith(Lower(ctype), ImagePrefix)

is_image_bytes(data, ctype) ==
    IF CtypeIsImage(ctype) THEN TRUE ELSE SignatureOk(data)

(***************************************************************************)
(* URLs.  A URL is the record of its parts; UrlStr gives its text.         *)
(***************************************************************************)
Url(scheme, host, path, query) ==
    [scheme |-> scheme, host |-> host, path |-> path, query |-> query]

Https == <<"h","t","t","p","s">>
DataScheme == <<"d","a","t","a">>

UrlStr(u) ==
    (IF u.scheme = DataScheme THEN u.scheme \o <<":">>
     ELSE IF u.scheme # <<>> THEN u.scheme \o <<":","/","/">>
     ELSE IF u.host # <<>> THEN <<"/","/">>
     ELSE <<>>)
    \o u.host \o u.path
    \o (IF u.query # <<>> THEN <<"?">> \o u.query ELSE <<>>)

\* the directory part of a path: everything up to and including the last "/"
RECURSIVE DirOf(_)
DirOf(path) ==
    IF Len(path) = 0 \/ path[Len(path)] = "/" THEN path
    ELSE DirOf(SubSeq(path, 1, Len(path) - 1))

\* urllib.parse.urljoin(base, u) for references without dot segments
urljoin(base, u) ==
    IF u.scheme # <<>> THEN u
    ELSE IF u.host # <<>> THEN Url(base.scheme, u.host, u.path, u.query)
    ELSE IF u.path = <<>>
         THEN Url(base.scheme, base.host, base.path,
                  IF u.query # <<>> THEN u.query ELSE base.query)
    ELSE IF u.path[1] = "/" THEN Url(base.scheme, base.host, u.path, u.query)
    ELSE Url(base.scheme, base.host, DirOf(base.path) \o u.path, u.query)

PstaticNet == <<"p","s","t","a","t","i","c",".","n","e","t">>
ComicNaverNet == <<"c","o","m","i","c",".","n","a","v","e","r",".","n","e","t">>
NaverNet == <<"n","a","v","e","r",".","n","e","t">>
CdnIo == <<"c","d","n",".","i","o">>
MobileHost == <<"m",".","c","o","m","i","c",".","n","a","v","e","r",".","c","o","m">>

\* the chapter page: https://m.comic.naver.com/webtoon/detail?titleId=1&no=5
ChapterUrl ==
    Url(Https, MobileHost,
        <<"/","w","e","b","t","o","o","n","/","d","e","t","a","i","l">>,
        <<"t","i","t","l","e","I","d","=","1","&","n","o","=","5">>)

\* https://pstatic.net/12/a.jpg
U12 == Url(Https, PstaticNet, <<"/","1","2","/","a",".","j","p","g">>, <<>>)
\* https://pstatic.net/03/b.png
U03 == Url(Https, PstaticNet, <<"/","0","3","/","b",".","p","n","g">>, <<>>)
\* https://pstatic.net/c.jpg  (no numeric hint)
UPlain == Url(Https, PstaticNet, <<"/","c",".","j","p","g">>, <<>>)
\* https://pstatic.net/20240315/d.jpg  (a date-like path segment)
UDate ==
    Url(Https, PstaticNet,
        <<"/","2","0","2","4","0","3","1","5","/","d",".","j","p","g">>, <<>>)
\* https://pstatic.net/12/A.JPG  (same page number as U12)
U12Upper == Url(Https, PstaticNet, <<"/","1","2","/","A",".","J","P","G">>, <<>>)
\* https://pstatic.net/img?page=4  (no extension)
UPage4 == Url(Https, PstaticNet, <<"/","i","m","g">>, <<"p","a","g","e","=","4">>)
\* https://pstatic.net/e_p7.webp
UP7 == Url(Https, PstaticNet, <<"/","e","_","p","7",".","w","e","b","p">>, <<>>)
\* https://cdn.io/image/f.jpg  (foreign host, content path)
UCdnImage == Url(Https, CdnIo, <<"/","i","m","a","g","e","/","f",".","j","p","g">>, <<>>)
\* https://cdn.io/icon.png  (foreign host, no content marker)
UCdnIcon == Url(Https, CdnIo, <<"/","i","c","o","n",".","p","n","g">>, <<>>)
\* /image/g   (relative reference, resolved against the chapter page)
URel == Url(<<>>, <<>>, <<"/","i","m","a","g","e","/","g">>, <<>>)
\* data:x
UData == Url(DataScheme, <<>>, <<"x">>, <<>>)

(***************************************************************************)
(* extract_image_urls                                                      *)
(*                                                                         *)
(* A document is a sequence of nodes: an <img> tag with its src-like       *)
(* attributes in source order, or a run of script/text holding a URL.      *)
(***************************************************************************)
SrcAttrs == {"data-src", "data-original", "data-image", "src"}

ImgNode(attrs) == [t |-> "img", attrs |-> attrs]
TextNode(u) == [t |-> "text", attrs |-> <<[n |-> "text", v |-> u]>>]
Attr(n, v) == [n |-> n, v |-> v]

\* group(1) of img_attr_pattern on one tag: the greedy [^>]+ leaves the
\* LAST src-like attribute of the tag to the capture group
ImgCapture(node) ==
    LET ks == {k \in 1..Len(node.attrs) : node.attrs[k].n \in SrcAttrs} IN
    IF node.t = "img" /\ ks # {}
    THEN <<node.attrs[CHOOSE k \in ks : \A j \in ks : j <= k].v>>
    ELSE <<>>

TrustedHost(host) ==
    Contains(host, PstaticNet) \/ Contains(host, ComicNaverNet) \/ Contains(host, NaverNet)

ContentMarkers ==
    { <<"/","w","e","b","t","o","o","n","/">>, <<"/","e","p","i","s","o","d","e","/">>,
      <<"/","c","o","n","t","e","n","t","/">>, <<"/","i","m","a","g","e","/">> }

LooksLikeContent(u) == \E mk \in ContentMarkers : Contains(UrlStr(u), mk)

ImageExts ==
    << <<".","j","p","g">>, <<".","j","p","e","g">>, <<".","p","n","g">>,
       <<".","w","e","b","p">> >>

HasImageExt(path) == \E k \in 1..Len(ImageExts) : EndsWith(Lower(path), ImageExts[k])

\* lines 98-115: the attribute scan, one tag at a time
RECURSIVE AttrScan(_, _, _)
AttrScan(html, base, urls) ==
    IF html = <<>> THEN urls
    ELSE
      LET cap == ImgCapture(Head(html))
          u == urljoin(base, cap[1])
          keep ==
            /\ cap # <<>>
            /\ cap[1].scheme # DataScheme
            /\ u.host # <<>>
            /\ (TrustedHost(u.host) \/ LooksLikeContent(u))
            /\ \A k \in 1..Len(urls) : urls[k] # u
      IN AttrScan(Tail(html), base, IF keep THEN Append(urls, u) ELSE urls)

\* every absolute image URL the bare-URL pattern of line 130 finds in the text
BareUrls(html) ==
    LET flat == [k \in 1..Len(html) |-> html[k].attrs]
        RECURSIVE Cat(_)
        Cat(ss) == IF ss = <<>> THEN <<>> ELSE Head(ss) \o Cat(Tail(ss))
        all == Cat(flat)
    IN SelectSeq(all, LAMBDA a : a.v.scheme = Https /\ HasImageExt(a.v.path))

\* lines 130-136: the bare-URL scan
RECURSIVE BareScan(_, _)
BareScan(found, urls) ==
    IF found = <<>> THEN urls
    ELSE
      LET u == Head(found).v
          keep == TrustedHost(u.host) /\ \A k \in 1..Len(urls) : urls[k] # u
      IN BareScan(Tail(found), IF keep THEN Append(urls, u) ELSE urls)

Sentinel == 1000000

RECURSIVE DigitRun(_, _)
DigitRun(s, k) == IF k <= Len(s) /\ IsDigit(s[k]) THEN 1 + DigitRun(s, k + 1) ELSE 0

\* the digits captured by /(\d{2,})/|_p(\d+)|page=(\d+) matched at position k,
\* or <<>> when the pattern does not match there
MatchAt(s, k) ==
    LET after(n) == DigitRun(s, k + n)
        grp(n) == SubSeq(s, k + n, k + n + after(n) - 1)
    IN IF s[k] = "/" /\ after(1) >= 2
          /\ k + 1 + after(1) <= Len(s) /\ s[k + 1 + after(1)] = "/"
       THEN grp(1)
       ELSE IF StartsWith(SubSeq(s, k, Len(s)), <<"_","p">>) /\ after(2) >= 1
       THEN grp(2)
       ELSE IF StartsWith(SubSeq(s, k, Len(s)), <<"p","a","g","e","=">>) /\ after(5) >= 1
       THEN grp(5)
       ELSE <<>>

\* lines 117-126: re.search takes the leftmost match
sort_key(u) ==
    LET s == UrlStr(u)
        ks == {k \in 1..Len(s) : MatchAt(s, k) # <<>>}
    IN IF ks # {} THEN ToInt(MatchAt(s, CHOOSE k \in ks : \A j \in ks : k <= j))
       ELSE Sentinel

\* urls.index(x)
IndexOf(urls, x) == CHOOSE k \in 1..Len(urls) : urls[k] = x /\ \A j \in 1..(k - 1) : urls[j] # x

\* list(dict.fromkeys(urls))
RECURSIVE FromKeys(_, _)
FromKeys(urls, acc) ==
    IF urls = <<>> THEN acc
    ELSE FromKeys(Tail(urls),
                  IF \E k \in 1..Len(acc) : acc[k] = Head(urls) THEN acc
                  ELSE Append(acc, Head(urls)))

\* the key of line 139 compared as Python compares tuples
KeyLess(urls, a, b) ==
    \/ sort_key(a) < sort_key(b)
    \/ sort_key(a) = sort_key(b) /\ IndexOf(urls, a) < IndexOf(urls, b)

\* sorted(..., key=...): a stable sort, here by insertion
RECURSIVE Insert(_, _, _)
Insert(urls, sortedSoFar, x) ==
    IF sortedSoFar = <<>> THEN <<x>>
    ELSE IF KeyLess(urls, x, Head(sortedSoFar)) THEN <<x>> \o sortedSoFar
    ELSE <<Head(sortedSoFar)>> \o Insert(urls, Tail(sortedSoFar), x)

RECURSIVE SortedBy(_, _, _)
SortedBy(urls, rest, acc) ==
    IF rest = <<>> THEN acc ELSE SortedBy(urls, Tail(rest), Insert(urls, acc, Head(rest)))

extract_image_urls(html, base) ==
    LET urls == BareScan(BareUrls(html), AttrScan(html, base, <<>>))
    IN SortedBy(urls, FromKeys(urls, <<>>), <<>>)

\* infer_ext(url), fallback ".jpg"
infer_ext(u) ==
    LET first(path) ==
          LET ks == {k \in 1..Len(ImageExts) : EndsWith(path, ImageExts[k])}
          IN IF ks # {} THEN ImageExts[CHOOSE k \in ks : \A j \in ks : k <= j]
             ELSE ImageExts[1]
    IN CHOOSE ext \in {first(path) : path \in {Lower(u.path)}} : TRUE

(***************************************************************************)
(* State                                                                   *)
(***************************************************************************)
VARIABLES
    call,    \* a direct call of one of the pure functions: its name and arguments
    result,  \* what that call returned
    fetch,   \* the frame of the running fetch(): arguments, locals, outcome
    net,     \* what the network and the clock saw of that fetch (history)
    run,     \* the frame of run_cli / download_images
    disk,    \* the destination and metadata directories
    hist     \* what the current and the previous run did (history)

vars == <<call, result, fetch, net, run, disk, hist>>

(***************************************************************************)
(* The network: payloads, declared content types, failures.                *)
(***************************************************************************)
JpegBytes == <<255, 216, 255, 224>>
PngBytes  == <<137, 80, 78, 71, 13, 10, 26, 10, 0>>
WebpBytes == <<82, 73, 70, 70, 1, 0, 0, 0, 87, 69, 66, 80>>
WaveBytes == <<82, 73, 70, 70, 1, 0, 0, 0, 87, 65, 86, 69>>
HtmlBytes == <<60, 104, 116, 109, 108>>
SpacedHtmlBytes == <<32, 10, 60, 104>>
DoctypeBytes == <<60, 33, 68>>
JsonBytes == <<123, 34>>
GifBytes  == <<71, 73, 70, 56>>
TextBytes == <<104, 105>>

Payloads ==
    { JpegBytes, PngBytes, WebpBytes, WaveBytes, HtmlBytes, SpacedHtmlBytes,
      DoctypeBytes, JsonBytes, GifBytes, TextBytes, <<>> }

CtImageJpeg == <<"i","m","a","g","e","/","j","p","e","g">>
CtImagePngUpper == <<"I","M","A","G","E","/","P","N","G">>
CtTextHtml == <<"t","e","x","t","/","h","t","m","l">>
CtSpacedImage == <<" ","i","m","a","g","e","/","p","n","g">>
CtImageNoSlash == <<"i","m","a","g","e">>

Ctypes ==
    { None, <<>>, CtImageJpeg, CtImagePngUpper, CtTextHtml, CtSpacedImage,
      CtImageNoSlash }

\* dict(resp.headers)
Headers(ctype) == [ContentType |-> ctype]

TransientErrors == {"HTTPError", "URLError", "TimeoutError", "SSLError"}

\* raised by resp.read() and not named in fetch's except clause
UncaughtErrors == {"IncompleteRead"}

Ok(data, ctype) == [kind |-> "ok", data |-> data, info |-> Headers(ctype), exc |-> NoExc]
Failure(kind, e) == [kind |-> kind, data |-> <<>>, info |-> Headers(None), exc |-> e]

\* chapter pages the site may serve
PageA ==
    << ImgNode(<<Attr("data-src", U12)>>), ImgNode(<<Attr("src", UCdnIcon)>>),
       ImgNode(<<Attr("src", U03)>>) >>
PageB ==
    << ImgNode(<<Attr("src", UPlain)>>), TextNode(U12), ImgNode(<<Attr("src", UData)>>) >>
PageNoImages == << ImgNode(<<Attr("src", UCdnIcon)>>), ImgNode(<<>>) >>

Pages == {PageA, PageB, PageNoImages}

\* what an image URL may answer with
ImageResponses ==
    { Ok(JpegBytes, None), Ok(HtmlBytes, CtTextHtml), Ok(PngBytes, CtImageJpeg) }

\* every outcome one urlopen()/read() of url may have
Serve(url) ==
    (IF url = ChapterUrl THEN {Ok(pg, CtTextHtml) : pg \in Pages} ELSE ImageResponses)
    \cup {Failure("transient", e) : e \in TransientErrors}
    \cup {Failure("uncaught", e) : e \in UncaughtErrors}

(***************************************************************************)
(* fetch                                                                   *)
(***************************************************************************)
\* delay = 0.5 (seconds), in milliseconds
BaseDelay == 500

\* attempts: int = 3
DefaultAttempts == 3

NoFetch ==
    [pc |-> "idle", url |-> ChapterUrl, attempts |-> 0, return_info |-> FALSE,
     i |-> 0, delay |-> 0, last_exc |-> NoExc, ret |-> <<>>, raised |-> NoExc]

NoNet == [calls |-> 0, transient |-> 0, last |-> Failure("none", NoExc), slept |-> <<>>]

\* lines 53-55: entering fetch
FetchStart(url, return_info, attempts) ==
    [pc |-> "running", url |-> url, attempts |-> attempts, return_info |-> return_info,
     i |-> 1, delay |-> BaseDelay, last_exc |-> NoExc, ret |-> <<>>, raised |-> NoExc]

\* line 60
FetchReturn(f, out) ==
    [f EXCEPT !.pc = "returned",
              !.ret = IF f.return_info THEN <<out.data, out.info>> ELSE <<out.data>>]

\* a variant that keeps the first failure instead of the last
MutFetchCaughtKeepsFirst(f, out) ==
    LET first == IF f.last_exc = NoExc THEN out.exc ELSE f.last_exc IN
    IF f.i >= f.attempts
    THEN [f EXCEPT !.pc = "raised", !.last_exc = first, !.raised = first]
    ELSE [f EXCEPT !.last_exc = first, !.i = f.i + 1, !.delay = f.delay * 2]

\* lines 61-66, and 67-68 after the break
FetchCaught(f, out) ==
    IF f.i >= f.attempts
    THEN [f EXCEPT !.pc = "raised", !.last_exc = out.exc, !.raised = out.exc]
    ELSE [f EXCEPT !.last_exc = out.exc, !.i = f.i + 1, !.delay = f.delay * 2]

\* a variant that also sleeps after the final failure
MutSleptAfterAlways(f, slept) == Append(slept, f.delay)

\* time.sleep calls made while handling a caught failure
SleptAfter(f, slept) == IF f.i >= f.attempts THEN slept ELSE Append(slept, f.delay)

\* one pass of the loop body whose urlopen/read succeeds
FetchOk ==
    /\ fetch.pc = "running" /\ fetch.i <= fetch.attempts
    /\ \E out \in Serve(fetch.url) :
         /\ out.kind = "ok"
         /\ fetch' = FetchReturn(fetch, out)
         /\ net' = [net EXCEPT !.calls = net.calls + 1, !.last = out]
    /\ UNCHANGED <<call, result, run, disk, hist>>

\* one pass of the loop body whose urlopen/read raises an error the except names
FetchTransient ==
    /\ fetch.pc = "running" /\ fetch.i <= fetch.attempts
    /\ \E out \in Serve(fetch.url) :
         /\ out.kind = "transient"
         /\ fetch' = FetchCaught(fetch, out)
         /\ net' = [net EXCEPT !.calls = net.calls + 1, !.last = out,
                               !.transient = net.transient + 1,
                               !.slept = SleptAfter(fetch, net.slept)]
    /\ UNCHANGED <<call, result, run, disk, hist>>

\* one pass of the loop body whose urlopen/read raises any other exception
FetchUncaught ==
    /\ fetch.pc = "running" /\ fetch.i <= fetch.attempts
    /\ \E out \in Serve(fetch.url) :
         /\ out.kind = "uncaught"
         /\ fetch' = [fetch EXCEPT !.pc = "raised", !.raised = out.exc]
         /\ net' = [net EXCEPT !.calls = net.calls + 1, !.last = out]
    /\ UNCHANGED <<call, result, run, disk, hist>>

\* lines 67-69 when the loop ran out without a break (attempts < 1)
FetchLoopExit ==
    /\ fetch.pc = "running" /\ fetch.i > fetch.attempts
    /\ fetch' = [fetch EXCEPT !.pc = "raised",
                   !.raised = IF fetch.last_exc # NoExc THEN fetch.last_exc
                              ELSE "RuntimeError"]
    /\ UNCHANGED <<call, result, net, run, disk, hist>>

(***************************************************************************)
(* Frames that are not in use                                              *)
(***************************************************************************)
NoCall == [fn |-> "none"]
NoResult == [done |-> FALSE]
NoRun ==
    [pc |-> "idle", url |-> ChapterUrl, html |-> <<>>, label |-> "", urls |-> <<>>,
     overwrite |-> FALSE, total |-> 0, pad |-> 0, idx |-> 0,
     name |-> None, saved_paths |-> <<>>, metas |-> <<>>, exit |-> "none"]

\* a file of the metadata directory: absent, or there with its content
Absent == <<>>
File(content) == <<content>>

\* files: the destination directory, file name -> bytes; the rest: the files of
\* the metadata directory
NoDisk ==
    [files |-> <<>>, urls_txt |-> Absent, chapter_json |-> Absent, images_txt |-> Absent]

NoHist ==
    [n |-> 0, events |-> <<>>, start |-> NoDisk, prev_html |-> <<>>,
     prev_pc |-> "idle", prev_overwrite |-> FALSE, manifest_by |-> 0]

(***************************************************************************)
(* Specification of direct calls of fetch                                  *)
(***************************************************************************)
MaxAttempts == 4

InitFetch ==
    /\ call = NoCall /\ result = NoResult
    /\ \E u \in {ChapterUrl, U12}, ri \in BOOLEAN, n \in 0..MaxAttempts :
         fetch = FetchStart(u, ri, n)
    /\ net = NoNet
    /\ run = NoRun /\ disk = NoDisk /\ hist = NoHist

NextFetch == FetchOk \/ FetchTransient \/ FetchUncaught \/ FetchLoopExit

SpecFetch == InitFetch /\ [][NextFetch]_vars

(***************************************************************************)
(* Specification of direct calls of is_image_bytes                         *)
(***************************************************************************)
InitImage ==
    /\ \E d \in Payloads, c \in Ctypes :
         call = [fn |-> "is_image_bytes", data |-> d, ctype |-> c]
    /\ result = NoResult
    /\ fetch = NoFetch /\ net = NoNet
    /\ run = NoRun /\ disk = NoDisk /\ hist = NoHist

CallIsImageBytes ==
    /\ call.fn = "is_image_bytes" /\ ~result.done
    /\ result' = [done |-> TRUE, value |-> is_image_bytes(call.data, call.ctype)]
    /\ UNCHANGED <<call, fetch, net, run, disk, hist>>

NextImage == CallIsImageBytes

SpecImage == InitImage /\ [][NextImage]_vars

(***************************************************************************)
(* Specification of direct calls of extract_image_urls                     *)
(***************************************************************************)
MaxNodes == 3

NodePool ==
    { ImgNode(<<Attr("src", U12)>>), ImgNode(<<Attr("data-src", U03)>>),
      ImgNode(<<Attr("src", UPlain)>>), ImgNode(<<Attr("src", UDate)>>),
      ImgNode(<<Attr("src", U12Upper)>>), ImgNode(<<Attr("data-image", UPage4)>>),
      ImgNode(<<Attr("src", UCdnImage)>>), ImgNode(<<Attr("src", UCdnIcon)>>),
      ImgNode(<<Attr("data-original", URel)>>), ImgNode(<<Attr("src", UData)>>),
      ImgNode(<<Attr("data-src", UP7), Attr("src", UPlain)>>),
      ImgNode(<<>>), TextNode(U12), TextNode(UP7), TextNode(UCdnImage) }

Documents == UNION {[1..n -> NodePool] : n \in 0..MaxNodes}

InitExtract ==
    /\ \E h \in Documents :
         call = [fn |-> "extract_image_urls", html |-> h, base |-> ChapterUrl]
    /\ result = NoResult
    /\ fetch = NoFetch /\ net = NoNet
    /\ run = NoRun /\ disk = NoDisk /\ hist = NoHist

CallExtract ==
    /\ call.fn = "extract_image_urls" /\ ~result.done
    /\ result' = [done |-> TRUE, value |-> extract_image_urls(call.html, call.base)]
    /\ UNCHANGED <<call, fetch, net, run, disk, hist>>

NextExtract == CallExtract

SpecExtract == InitExtract /\ [][NextExtract]_vars

(***************************************************************************)
(* slugify and parse_chapter_label                                         *)
(*                                                                         *)
(* The texts extract_by_id and the title patterns find in the page are     *)
(* inputs: None when the pattern does not match, else the text found.      *)
(***************************************************************************)
\* \s of the re module, for the characters the texts of the model use
SpaceChars == {" ", "\t", "\n"}

AlnumChars ==
    {Digits[k] : k \in 1..Len(Digits)}
    \cup {UpperLetters[k] : k \in 1..Len(UpperLetters)}
    \cup {LowerLetters[k] : k \in 1..Len(LowerLetters)}

\* str.strip() / str.strip("-"): the characters of drop go from both ends
Strip(s, drop) ==
    LET RECURSIVE StripLeft(_)
        StripLeft(t) == IF t # <<>> /\ Head(t) \in drop THEN StripLeft(Tail(t)) ELSE t
        RECURSIVE StripRight(_)
        StripRight(t) ==
          IF t # <<>> /\ t[Len(t)] \in drop
          THEN StripRight(SubSeq(t, 1, Len(t) - 1)) ELSE t
    IN StripRight(StripLeft(s))

\* re.sub(r"[class]+", "-", s): every maximal run of the class becomes one "-"
RECURSIVE RunsToDash(_, _, _)
RunsToDash(s, class, inRun) ==
    IF s = <<>> THEN <<>>
    ELSE IF Head(s) \in class
         THEN (IF inRun THEN <<>> ELSE <<"-">>) \o RunsToDash(Tail(s), class, TRUE)
         ELSE <<Head(s)>> \o RunsToDash(Tail(s), class, FALSE)

\* lines 200-204
slugify(s) ==
    LET s1 == RunsToDash(Strip(s, SpaceChars), SpaceChars \cup {"_"}, FALSE)
        s2 == SelectSeq(s1, LAMBDA c : c \in AlnumChars \cup {"-"})
        s3 == RunsToDash(s2, {"-"}, FALSE)
    IN Take(Strip(s3, {"-"}), 80)

\* the start of the match of -\d+$ in slug, or 0
TrailingNumberAt(slug) ==
    LET ks == {k \in 1..(Len(slug) - 1) :
                 /\ slug[k] = "-"
                 /\ \A j \in (k + 1)..Len(slug) : IsDigit(slug[j])}
    IN IF ks = {} THEN 0 ELSE CHOOSE k \in ks : \A j \in ks : k <= j

\* lines 254-257: the slug of the main title, else of the page title
SlugOf(ep_main, ep_title) ==
    LET slug_base == IF ep_main # None /\ ep_main # <<>> THEN ep_main ELSE ep_title
        slug == IF slug_base # None /\ slug_base # <<>> THEN slugify(slug_base) ELSE None
    IN IF slug # None /\ slug # <<>> /\ TrailingNumberAt(slug) > 0
       THEN SubSeq(slug, 1, TrailingNumberAt(slug) - 1)
       ELSE slug

\* lines 237-241: group(1) of (\d{1,5}) searched in the subtitle, or None
SubtitleNumber(ep_sub) ==
    IF ep_sub = None \/ ep_sub = <<>> THEN None
    ELSE LET ks == {k \in 1..Len(ep_sub) : IsDigit(ep_sub[k])} IN
         IF ks = {} THEN None
         ELSE LET k == CHOOSE a \in ks : \A b \in ks : a <= b
                  n == DigitRun(ep_sub, k)
              IN SubSeq(ep_sub, k, k + (IF n > 5 THEN 5 ELSE n) - 1)

Site == <<"n","a","v","e","r">>
Episode == <<"e","p","i","s","o","d","e">>

Truthy(s) == s # None /\ s # <<>>

\* lines 218-273, from the query parameters and the texts found in the page
parse_chapter_label(title_id, no, ep_main, ep_title, ep_sub) ==
    LET ep_no_text == SubtitleNumber(ep_sub)
        slug == SlugOf(ep_main, ep_title)
        chapter_no == IF Truthy(ep_no_text) THEN ep_no_text ELSE no
        base == IF Truthy(title_id) \/ Truthy(chapter_no)
                THEN Site \o <<"_">> \o title_id \o <<"_">> \o chapter_no
                ELSE IF Truthy(slug) THEN slug ELSE Episode
        label == IF Truthy(slug) THEN base \o <<"_">> \o slug ELSE base
    IN [label |-> label,
        meta |-> [site |-> Site, titleId |-> title_id, no |-> no,
                  episode_title |-> ep_title, episode_title_main |-> ep_main,
                  episode_subtitle |-> ep_sub, episode_no_extracted |-> ep_no_text]]

(***************************************************************************)
(* Specification of direct calls of parse_chapter_label                    *)
(***************************************************************************)
QueryValues == { <<>>, <<"5">>, <<"1","2">> }

MainTitles ==
    { None, <<>>, <<"M","y"," ","T","o","o","n">>,
      <<"T","o","o","n","_","_","x"," ","!"," ","2">>, <<"!","?">> }

PageTitles == { None, <<" ","A","-","-","b","_","9"," ">> }

Subtitles ==
    { None, <<>>, <<"e","p"," ","1","2"," ","/"," ","3">>, <<"f","i","n","a","l","e">>,
      <<"1","2","3","4","5","6">> }

InitLabel ==
    /\ \E t \in QueryValues, n \in QueryValues, m \in MainTitles,
          pt \in PageTitles, sb \in Subtitles :
         call = [fn |-> "parse_chapter_label", title_id |-> t, no |-> n,
                 ep_main |-> m, ep_title |-> pt, ep_sub |-> sb]
    /\ result = NoResult
    /\ fetch = NoFetch /\ net = NoNet
    /\ run = NoRun /\ disk = NoDisk /\ hist = NoHist

CallParseChapterLabel ==
    /\ call.fn = "parse_chapter_label" /\ ~result.done
    /\ result' = [done |-> TRUE,
                  value |-> parse_chapter_label(call.title_id, call.no, call.ep_main,
                                                call.ep_title, call.ep_sub)]
    /\ UNCHANGED <<call, fetch, net, run, disk, hist>>

NextLabel == CallParseChapterLabel

SpecLabel == InitLabel /\ [][NextLabel]_vars

(***************************************************************************)
(* normalize_naver_url, over the text of the URL                           *)
(***************************************************************************)
\* the position of the first character of s that is in cs, or Len(s) + 1
FirstOf(s, cs) ==
    CHOOSE k \in 1..(Len(s) + 1) :
        /\ k = Len(s) + 1 \/ s[k] \in cs
        /\ \A j \in 1..(k - 1) : s[j] \notin cs

\* urllib.parse.urlparse(u): ok is FALSE when it raises ValueError.  Each
\* stage works on the value the stage before it left.
urlparse(u) ==
    LET \* the scheme, when the text before the first ":" is one
        Scheme(t) ==
          LET colon == FirstOf(t, {":"})
              head == SubSeq(t, 1, colon - 1)
              hasScheme ==
                /\ colon <= Len(t) /\ colon > 1
                /\ head[1] \in AlnumChars \ {Digits[k] : k \in 1..Len(Digits)}
                /\ \A k \in 1..Len(head) : head[k] \in AlnumChars \cup {"+", "-", "."}
          IN IF hasScheme
             THEN [scheme |-> Lower(head), rest |-> SubSeq(t, colon + 1, Len(t))]
             ELSE [scheme |-> <<>>, rest |-> t]
        \* the netloc, when the rest starts with "//"
        Netloc(r) ==
          IF StartsWith(r.rest, <<"/","/">>)
          THEN LET after == SubSeq(r.rest, 3, Len(r.rest))
                   netEnd == FirstOf(after, {"/", "?", "#"})
               IN [scheme |-> r.scheme, netloc |-> SubSeq(after, 1, netEnd - 1),
                   rest |-> SubSeq(after, netEnd, Len(after))]
          ELSE [scheme |-> r.scheme, netloc |-> <<>>, rest |-> r.rest]
        \* the fragment, then the query
        Tail2(r) ==
          LET hash == FirstOf(r.rest, {"#"})
              qm == FirstOf(SubSeq(r.rest, 1, hash - 1), {"?"})
          IN [scheme |-> r.scheme, netloc |-> r.netloc,
              fullpath |-> SubSeq(r.rest, 1, IF qm < hash THEN qm - 1 ELSE hash - 1),
              query |-> SubSeq(r.rest, qm + 1, hash - 1),
              fragment |-> SubSeq(r.rest, hash + 1, Len(r.rest))]
        \* the parameters of the last path segment, and the bracket test
        Params(r) ==
          LET slashes == {k \in 1..Len(r.fullpath) : r.fullpath[k] = "/"}
              lastSlash == IF slashes = {} THEN 0
                           ELSE CHOOSE k \in slashes : \A j \in slashes : j <= k
              semi == lastSlash
                      + FirstOf(SubSeq(r.fullpath, lastSlash + 1, Len(r.fullpath)), {";"})
              open == \E k \in 1..Len(r.netloc) : r.netloc[k] = "["
              close == \E k \in 1..Len(r.netloc) : r.netloc[k] = "]"
          IN [ok |-> open = close, scheme |-> r.scheme, netloc |-> r.netloc,
              path |-> SubSeq(r.fullpath, 1, semi - 1),
              params |-> SubSeq(r.fullpath, semi + 1, Len(r.fullpath)),
              query |-> r.query, fragment |-> r.fragment]
    IN CHOOSE p \in
         {Params(r3) : r3 \in
           {Tail2(r2) : r2 \in
             {Netloc(r1) : r1 \in {Scheme(u)}}}} : TRUE

\* a variant that forgets the query
MutUrlunparseNoQuery(scheme, netloc, path, params, query, fragment) ==
    scheme \o <<":","/","/">> \o netloc \o path

\* urllib.parse.urlunparse((scheme, netloc, path, params, query, fragment))
urlunparse(scheme, netloc, path, params, query, fragment) ==
    LET u1 == IF params # <<>> THEN path \o <<";">> \o params ELSE path
        u2 == IF netloc # <<>>
              THEN <<"/","/">> \o netloc
                   \o (IF u1 # <<>> /\ u1[1] # "/" THEN <<"/">> ELSE <<>>) \o u1
              ELSE u1
        u3 == IF scheme # <<>> THEN scheme \o <<":">> \o u2 ELSE u2
        u4 == IF query # <<>> THEN u3 \o <<"?">> \o query ELSE u3
    IN IF fragment # <<>> THEN u4 \o <<"#">> \o fragment ELSE u4

DesktopSuffix == <<"c","o","m","i","c",".","n","a","v","e","r",".","c","o","m">>
WebtoonDetail == <<"/","w","e","b","t","o","o","n","/","d","e","t","a","i","l">>

\* lines 72-86
normalize_naver_url(u) ==
    LET p == urlparse(u)
        host == Lower(p.netloc)
    IN IF /\ p.ok
          /\ EndsWith(host, DesktopSuffix) /\ ~StartsWith(host, <<"m",".">>)
          /\ Contains(p.path, WebtoonDetail)
       THEN [url |-> urlunparse(IF p.scheme # <<>> THEN p.scheme ELSE Https,
                                MobileHost, p.path, p.params, p.query, p.fragment),
             rewritten |-> TRUE, raised |-> FALSE]
       ELSE [url |-> u, rewritten |-> FALSE, raised |-> FALSE]

(***************************************************************************)
(* Specification of direct calls of normalize_naver_url                    *)
(***************************************************************************)
UrlTexts ==
    LET starts == { <<"h","t","t","p","s",":","/","/">>, <<"H","T","T","P",":","/","/">>, <<"/","/">>, <<>> }
        hosts == { DesktopSuffix, MobileHost, <<"C","O","M","I","C",".","N","a","v","e","r",".","c","o","m">>, <<"w","w","w",".","c","o","m","i","c",".","n","a","v","e","r",".","c","o","m">>, <<"c","o","m","i","c",".","n","a","v","e","r",".","c","o","m",":","4","4","3">>, <<"e","x","a","m","p","l","e",".","c","o","m">>, <<"[","c","o","m","i","c",".","n","a","v","e","r",".","c","o","m">>, <<"M",".","c","o","m","i","c",".","n","a","v","e","r",".","c","o","m">> }
        paths == { WebtoonDetail, <<"/","w","e","b","t","o","o","n","/","l","i","s","t">>, <<"/","a",";","x","/","w","e","b","t","o","o","n","/","d","e","t","a","i","l",";","p">>, <<>> }
        tails == { <<>>, <<"?","t","i","t","l","e","I","d","=","1","&","n","o","=","5">>, <<"?","a","=","1","#","f","r","a","g">>, <<"?">>, <<"#">> }
    IN {s \o h \o p \o t : s \in starts, h \in hosts, p \in paths, t \in tails}

InitNormalize ==
    /\ \E u \in UrlTexts : call = [fn |-> "normalize_naver_url", u |-> u]
    /\ result = NoResult
    /\ fetch = NoFetch /\ net = NoNet
    /\ run = NoRun /\ disk = NoDisk /\ hist = NoHist

CallNormalize ==
    /\ call.fn = "normalize_naver_url" /\ ~result.done
    /\ result' = [done |-> TRUE, value |-> normalize_naver_url(call.u)]
    /\ UNCHANGED <<call, fetch, net, run, disk, hist>>

NextNormalize == CallNormalize

SpecNormalize == InitNormalize /\ [][NextNormalize]_vars

(***************************************************************************)
(* run_cli and download_images                                             *)
(***************************************************************************)
MaxRuns == 2

\* parse_chapter_label(url, html) for the chapter page: titleId=1, no=5, no title
ChapterLabel == "naver_1_5"

\* an entry of the run's log: what happened, at which candidate, and, for a
\* saved payload, whether is_image_bytes holds of it
Event(e, idx, valid) == [e |-> e, idx |-> idx, valid |-> valid]

Log(h, e, idx, valid) == [h EXCEPT !.events = Append(h.events, Event(e, idx, valid))]

\* line 169
PadWidth(total) == Max(3, Len(ToStr(total)))

\* a variant that never pads the index
MutFileNameNoPad(idx, pad, ext) == ToStr(idx) \o ext

\* line 173: f"{idx:0{pad}d}{ext}"
FileName(idx, pad, ext) == ZeroPad(ToStr(idx), pad) \o ext

\* out.exists()
Exists(d, name) == name \in DOMAIN d.files

\* a variant that leaves the file empty
MutWriteBytesTruncates(d, name, data) ==
    [d EXCEPT !.files = [n \in (DOMAIN d.files) \cup {name} |->
                           IF n = name THEN <<>> ELSE d.files[n]]]

\* out.write_bytes(data)
WriteBytes(d, name, data) ==
    [d EXCEPT !.files = [n \in (DOMAIN d.files) \cup {name} |->
                           IF n = name THEN data ELSE d.files[n]]]

\* a variant that forgets the listing
MutWriteUrlsTxtNothing(d, urls) == d

\* line 170: "\n".join(urls) + "\n", one line per candidate
WriteUrlsTxt(d, urls) ==
    [d EXCEPT !.urls_txt = File([k \in 1..Len(urls) |-> UrlStr(urls[k])])]

\* a variant that records no size
MutRecordNoSize(idx, name, u, size) == [index |-> idx, filename |-> name, url |-> u, size |-> 0]

\* lines 179 and 194
Record(idx, name, u, size) == [index |-> idx, filename |-> name, url |-> u, size |-> size]

\* a variant that keeps a manifest that is already there
MutWriteManifestKeepsOld(d, label, saved, metas) ==
    IF d.chapter_json # Absent THEN d
    ELSE [d EXCEPT !.chapter_json =
                     File([label |-> label, count |-> Len(saved), images |-> metas]),
                   !.images_txt =
                     File([k \in 1..Len(metas) |->
                             <<metas[k].index, metas[k].filename,
                               UrlStr(metas[k].url), metas[k].size>>])]

\* lines 310-316: .chapter.json and images.txt
WriteManifest(d, label, saved, metas) ==
    [d EXCEPT !.chapter_json =
                File([label |-> label, count |-> Len(saved), images |-> metas]),
              !.images_txt =
                File([k \in 1..Len(metas) |->
                        <<metas[k].index, metas[k].filename,
                          UrlStr(metas[k].url), metas[k].size>>])]

\* a variant without the no-images exit
MutAfterExtractNeverExits(urls) == "parsed"

\* lines 301-303: the branch taken on the extracted list
AfterExtract(urls) == IF urls = <<>> THEN "exited" ELSE "parsed"

\* a variant that fetches whether or not the target exists
MutSkipsExistingNever(d, name, overwrite) == FALSE

\* line 175: the branch taken on an existing target
SkipsExisting(d, name, overwrite) == Exists(d, name) /\ ~overwrite

\* a variant that lets every payload through
MutAcceptsAnything(data, ctype) == TRUE

\* line 187: the test that lets a payload through
Accepts(data, ctype) == is_image_bytes(data, ctype)

\* a variant that leaves the loop instead of going on
MutContinueBreaks(r) == [r EXCEPT !.pc = "loop", !.idx = r.total + 1]

\* lines 185 and 189: continue
Continue(r) == [r EXCEPT !.pc = "loop", !.idx = r.idx + 1]

\* lines 172-173: the name of the candidate the loop is at
CurrentName == FileName(run.idx, run.pad, infer_ext(run.urls[run.idx]))

\* lines 276-289: a new process; GRAB_OVERWRITE is part of its environment
StartRun ==
    /\ run.pc \in {"idle", "done", "exited", "crashed"}
    /\ hist.n < MaxRuns
    /\ \E ow \in BOOLEAN :
         run' = [NoRun EXCEPT !.pc = "fetch_page", !.overwrite = ow]
    /\ fetch' = FetchStart(ChapterUrl, FALSE, DefaultAttempts)
    /\ net' = NoNet
    /\ hist' = [hist EXCEPT !.n = hist.n + 1, !.events = <<>>, !.start = disk,
                            !.prev_html = run.html, !.prev_pc = run.pc,
                            !.prev_overwrite = run.overwrite]
    /\ UNCHANGED <<call, result, disk>>

\* line 289 raising: nothing in run_cli catches it
PageFetchFailed ==
    /\ run.pc = "fetch_page" /\ fetch.pc = "raised"
    /\ run' = [run EXCEPT !.pc = "crashed", !.exit = "exception"]
    /\ fetch' = NoFetch /\ net' = NoNet
    /\ UNCHANGED <<call, result, disk, hist>>

\* lines 289-303: the page arrived; label, extraction, the no-images exit
PageFetched ==
    /\ run.pc = "fetch_page" /\ fetch.pc = "returned"
    /\ LET html == fetch.ret[1]
           urls == extract_image_urls(html, run.url)
           to == AfterExtract(urls)
       IN run' = [run EXCEPT !.pc = to, !.html = html, !.label = ChapterLabel,
                             !.urls = urls,
                             !.exit = IF to = "exited" THEN "2" ELSE "none"]
    /\ fetch' = NoFetch /\ net' = NoNet
    /\ hist' = Log(hist, "page", 0, FALSE)
    /\ UNCHANGED <<call, result, disk>>

\* lines 305-308 and 161-170: entering download_images, up to the loop
DownloadBegin ==
    /\ run.pc = "parsed"
    /\ run' = [run EXCEPT !.pc = "loop", !.total = Len(run.urls),
                          !.pad = PadWidth(Len(run.urls)), !.idx = 1,
                          !.saved_paths = <<>>, !.metas = <<>>]
    /\ disk' = WriteUrlsTxt(disk, run.urls)
    /\ hist' = Log(hist, "urls_txt", 0, FALSE)
    /\ UNCHANGED <<call, result, fetch, net>>

\* lines 171-180: the target exists and overwrite is off
SkipExisting ==
    /\ run.pc = "loop" /\ run.idx <= run.total
    /\ \E name \in {CurrentName} :
         /\ SkipsExisting(disk, name, run.overwrite)
         /\ run' = [run EXCEPT
                      !.idx = run.idx + 1, !.name = name,
                      !.saved_paths = Append(run.saved_paths, name),
                      !.metas = Append(run.metas,
                                       Record(run.idx, name, run.urls[run.idx],
                                              Len(disk.files[name])))]
    /\ hist' = Log(hist, "skip", run.idx, FALSE)
    /\ UNCHANGED <<call, result, fetch, net, disk>>

\* lines 171-182: the fetch of the candidate is issued
IssueImageFetch ==
    /\ run.pc = "loop" /\ run.idx <= run.total
    /\ \E name \in {CurrentName} :
         /\ ~SkipsExisting(disk, name, run.overwrite)
         /\ run' = [run EXCEPT !.pc = "fetch_image", !.name = name]
    /\ fetch' = FetchStart(run.urls[run.idx], TRUE, DefaultAttempts)
    /\ net' = NoNet
    /\ hist' = Log(hist, "fetch", run.idx, FALSE)
    /\ UNCHANGED <<call, result, disk>>

\* lines 183-185: except Exception ... continue
ImageFetchFailed ==
    /\ run.pc = "fetch_image" /\ fetch.pc = "raised"
    /\ run' = Continue(run)
    /\ fetch' = NoFetch /\ net' = NoNet
    /\ hist' = Log(hist, "failed", run.idx, FALSE)
    /\ UNCHANGED <<call, result, disk>>

\* lines 186-189: the payload is not an image
ImageRejected ==
    /\ run.pc = "fetch_image" /\ fetch.pc = "returned"
    /\ ~Accepts(fetch.ret[1], fetch.ret[2].ContentType)
    /\ run' = Continue(run)
    /\ fetch' = NoFetch /\ net' = NoNet
    /\ hist' = Log(hist, "rejected", run.idx, FALSE)
    /\ UNCHANGED <<call, result, disk>>

\* lines 186-196: the payload is written and recorded
ImageSaved ==
    /\ run.pc = "fetch_image" /\ fetch.pc = "returned"
    /\ Accepts(fetch.ret[1], fetch.ret[2].ContentType)
    /\ disk' = WriteBytes(disk, run.name, fetch.ret[1])
    /\ run' = [run EXCEPT
                 !.pc = "loop", !.idx = run.idx + 1,
                 !.saved_paths = Append(run.saved_paths, run.name),
                 !.metas = Append(run.metas,
                                  Record(run.idx, run.name, run.urls[run.idx],
                                         Len(fetch.ret[1])))]
    /\ fetch' = NoFetch /\ net' = NoNet
    /\ hist' = Log(hist, "saved", run.idx,
                    is_image_bytes(fetch.ret[1], fetch.ret[2].ContentType))
    /\ UNCHANGED <<call, result>>

\* lines 197 and 308-317: the loop is over; the manifest is written
FinishRun ==
    /\ run.pc = "loop" /\ run.idx > run.total
    /\ disk' = WriteManifest(disk, run.label, run.saved_paths, run.metas)
    /\ run' = [run EXCEPT !.pc = "done", !.exit = "0"]
    /\ hist' = [Log(hist, "manifest", 0, FALSE) EXCEPT !.manifest_by = hist.n]
    /\ UNCHANGED <<call, result, fetch, net>>

\* run_cli always calls fetch with the default attempts (3), so the loop of
\* fetch is left by return, break or an exception, never by running out
Init ==
    /\ call = NoCall /\ result = NoResult
    /\ fetch = NoFetch /\ net = NoNet
    /\ run = NoRun /\ disk = NoDisk /\ hist = NoHist

Next ==
    \/ StartRun \/ PageFetchFailed \/ PageFetched \/ DownloadBegin
    \/ SkipExisting \/ IssueImageFetch \/ ImageFetchFailed \/ ImageRejected
    \/ ImageSaved \/ FinishRun
    \/ FetchOk \/ FetchTransient \/ FetchUncaught

Spec == Init /\ [][Next]_vars

\* a step of the download stage of a run, its network calls included
DownloadStep ==
    \/ DownloadBegin
    \/ SkipExisting \/ IssueImageFetch \/ ImageFetchFailed \/ ImageRejected
    \/ ImageSaved \/ FinishRun
    \/ FetchOk \/ FetchTransient \/ FetchUncaught

\* the process is sequential and every network call returns or raises within
\* its timeout (line 46), so the download stage takes the step it can take
FairSpec == Spec /\ WF_vars(DownloadStep)

(***************************************************************************)
(* Properties                                                              *)
(***************************************************************************)

\* C1: fetch(url, attempts = N >= 1) calls the network at most N times; when it
\* returns, the last call was the only successful one and its payload is what
\* is returned; when all N calls failed with an error the except clause names,
\* fetch has raised the error of the last call; it returns only after a
\* successful call.
C1_FetchRetryContract ==
    (fetch.pc # "idle" /\ fetch.attempts >= 1) =>
        /\ net.calls <= fetch.attempts
        /\ (fetch.pc = "returned" =>
              /\ net.last.kind = "ok"
              /\ net.calls = net.transient + 1
              /\ fetch.ret[1] = net.last.data
              /\ fetch.raised = NoExc)
        /\ (net.transient = fetch.attempts =>
              /\ fetch.pc = "raised"
              /\ fetch.raised = net.last.exc
              /\ fetch.ret = <<>>)
        /\ (net.last.kind \in {"transient", "uncaught"} => fetch.pc # "returned")

\* three attempts, three caught failures, the last one a TLS error
C1_Witness ==
    /\ fetch.pc = "raised" /\ fetch.attempts = 3 /\ net.calls = 3
    /\ net.transient = 3 /\ fetch.raised = "SSLError"

(***************************************************************************)
(* Readings of the run's log                                               *)
(***************************************************************************)
EventsOf(kinds) == {k \in 1..Len(hist.events) : hist.events[k].e \in kinds}

IdxOf(kinds) == {hist.events[k].idx : k \in EventsOf(kinds)}

\* the candidates whose fetched payload passed validation in this run
ValidatedIdx == {hist.events[k].idx : k \in {j \in EventsOf({"saved"}) : hist.events[j].valid}}

RecordIdx(metas) == {metas[k].index : k \in 1..Len(metas)}

Terminal == run.pc \in {"done", "exited", "crashed"}

InDownload == run.pc \in {"loop", "fetch_image", "done"}

\* C2 as stated: a record exists only for a candidate whose payload validation
\* succeeded, and none for a candidate whose fetch failed or was rejected.
C2_RecordsOnlyForValidated ==
    /\ RecordIdx(run.metas) \subseteq ValidatedIdx
    /\ RecordIdx(run.metas) \cap IdxOf({"failed", "rejected"}) = {}

\* C2 amended: a record (and its saved path) exists only for a candidate whose
\* payload validation succeeded in this run or whose target file already
\* existed while overwrite was off; a candidate whose fetch failed or whose
\* payload was rejected has no record and is not in the manifest.
C2_RecordsOnlyForValidatedOrExisting ==
    /\ RecordIdx(run.metas) = ValidatedIdx \cup IdxOf({"skip"})
    /\ IdxOf({"saved"}) = ValidatedIdx
    /\ IdxOf({"skip"}) # {} => ~run.overwrite
    /\ \A k \in 1..Len(run.metas) :
         /\ run.metas[k].filename \in DOMAIN disk.files
         /\ run.metas[k].index \in IdxOf({"skip"}) =>
              run.metas[k].filename \in DOMAIN hist.start.files
    /\ RecordIdx(run.metas) \cap IdxOf({"failed", "rejected"}) = {}
    /\ Len(run.saved_paths) = Len(run.metas)
    /\ \A k \in 1..Len(run.metas) : run.saved_paths[k] = run.metas[k].filename
    /\ run.pc = "done" =>
         RecordIdx(disk.chapter_json[1].images) \cap IdxOf({"failed", "rejected"}) = {}

\* a finished run in which one candidate was rejected and the other recorded
\* from an existing file
C2_Witness ==
    /\ run.pc = "done" /\ IdxOf({"rejected"}) # {} /\ IdxOf({"skip"}) # {}
    /\ Len(disk.chapter_json[1].images) = 1

\* the second of two consecutive finished runs on the same page, overwrite off
SecondRunOfSamePage ==
    /\ run.pc = "done" /\ hist.prev_pc = "done" /\ hist.prev_html = run.html
    /\ ~run.overwrite /\ ~hist.prev_overwrite

\* C3 as stated: the second run leaves manifest and files identical and
\* fetches no image.
C3_SecondRunIdentical ==
    SecondRunOfSamePage =>
        /\ disk.chapter_json = hist.start.chapter_json
        /\ disk.images_txt = hist.start.images_txt
        /\ disk.files = hist.start.files
        /\ IdxOf({"fetch"}) = {}

\* C3 amended: the second run fetches only candidates the first run did not
\* save; every file the first run left is unchanged and every record of the
\* first manifest is in the second, with the on-disk size; when the first run
\* saved every candidate the second run fetches nothing and manifest and file
\* set are identical.
C3_SecondRunReusesFirst ==
    SecondRunOfSamePage =>
        LET old == hist.start.chapter_json[1].images
            new == disk.chapter_json[1].images
        IN /\ \A k \in 1..Len(old) : \E j \in 1..Len(new) : new[j] = old[k]
           /\ \A n \in DOMAIN hist.start.files :
                n \in DOMAIN disk.files /\ disk.files[n] = hist.start.files[n]
           /\ IdxOf({"fetch"}) \cap RecordIdx(old) = {}
           /\ \A j \in 1..Len(new) :
                new[j].index \in IdxOf({"skip"}) =>
                  new[j].size = Len(hist.start.files[new[j].filename])
           /\ hist.start.chapter_json[1].count = Len(run.urls) =>
                /\ disk.chapter_json = hist.start.chapter_json
                /\ disk.images_txt = hist.start.images_txt
                /\ disk.files = hist.start.files
                /\ IdxOf({"fetch"}) = {}

\* the first run saved both candidates, with different payloads
C3_Witness ==
    /\ SecondRunOfSamePage
    /\ hist.start.chapter_json[1].count = Len(run.urls)
    /\ Len(run.urls) = 2
    /\ \E a, b \in DOMAIN disk.files : disk.files[a] # disk.files[b]

\* C4: is_image_bytes rejects every payload that starts with markup or JSON
\* text ("<" or "{"), whatever the declared content type.
C4_MarkupAlwaysRejected ==
    (/\ call.fn = "is_image_bytes" /\ result.done
     /\ (StartsWith(call.data, LtByte) \/ StartsWith(call.data, BraceByte)))
    => result.value = FALSE

\* C5: the download stage writes the full ordered candidate list to .urls.txt,
\* one entry per candidate in extraction order, before the first image fetch
\* of the run, and the listing stays as written through every later fetch,
\* failure, rejection and save.
C5_UrlListingFirstAndKept ==
    /\ InDownload =>
         /\ disk.urls_txt # Absent
         /\ Len(disk.urls_txt[1]) = Len(run.urls)
         /\ \A k \in 1..Len(run.urls) : disk.urls_txt[1][k] = UrlStr(run.urls[k])
         /\ run.urls = extract_image_urls(run.html, run.url)
    /\ \A k \in EventsOf({"fetch", "skip", "saved", "failed", "rejected"}) :
         \E j \in EventsOf({"urls_txt"}) : j < k
    /\ Cardinality(EventsOf({"urls_txt"})) <= 1

\* a second run whose first candidate failed: the listing of this run is in place
C5_Witness ==
    /\ run.pc = "fetch_image" /\ hist.n = 2 /\ run.idx = 2
    /\ IdxOf({"failed"}) = {1}
    /\ hist.start.urls_txt # Absent /\ disk.urls_txt # hist.start.urls_txt

\* C6 as stated: after any sequence of runs the manifest on disk is that of
\* the latest run.
C6_ManifestAlwaysOfLatestRun ==
    (Terminal /\ disk.chapter_json # Absent) => hist.manifest_by = hist.n

\* C6 amended: after a run that got through its download stage the manifest
\* on disk (.chapter.json and images.txt) is that run's: its count and records
\* replace the earlier ones; a run that ends at the page fetch or with no
\* candidates writes no manifest and leaves the earlier one as it was.
C6_ManifestOfLatestFinishedRun ==
    /\ run.pc = "done" =>
         /\ hist.manifest_by = hist.n
         /\ disk.chapter_json[1].count = Len(run.saved_paths)
         /\ disk.chapter_json[1].images = run.metas
         /\ disk.chapter_json[1].label = run.label
         /\ Len(disk.images_txt[1]) = Len(run.metas)
         /\ \A k \in 1..Len(run.metas) :
              /\ disk.images_txt[1][k][1] = run.metas[k].index
              /\ disk.images_txt[1][k][2] = run.metas[k].filename
              /\ disk.images_txt[1][k][3] = UrlStr(run.metas[k].url)
              /\ disk.images_txt[1][k][4] = run.metas[k].size
    /\ run.pc # "done" =>
         /\ disk.chapter_json = hist.start.chapter_json
         /\ disk.images_txt = hist.start.images_txt
         /\ hist.manifest_by < Max(hist.n, 1)

\* a second finished run whose manifest differs from the first run's
C6_Witness ==
    /\ run.pc = "done" /\ hist.n = 2 /\ hist.start.chapter_json # Absent
    /\ hist.start.chapter_json[1].count = 2 /\ disk.chapter_json[1].count = 0

\* a URL in which the page-number pattern matches somewhere
HasNumericHint(u) == \E k \in 1..Len(UrlStr(u)) : MatchAt(UrlStr(u), k) # <<>>

\* the order in which the two scans first saw the URLs
FirstSeen(html, base) == BareScan(BareUrls(html), AttrScan(html, base, <<>>))

\* C7: the list extract_image_urls returns holds no URL twice, is ordered by
\* (sort_key, first-seen index), and every URL without a numeric hint comes
\* after every URL with a recognised page number.
C7_UniqueOrderedUnnumberedLast ==
    (call.fn = "extract_image_urls" /\ result.done) =>
        LET out == result.value
            seen == FirstSeen(call.html, call.base)
        IN /\ \A a, b \in 1..Len(out) : a # b => out[a] # out[b]
           /\ \A a, b \in 1..Len(out) :
                a < b =>
                  \/ sort_key(out[a]) < sort_key(out[b])
                  \/ /\ sort_key(out[a]) = sort_key(out[b])
                     /\ IndexOf(seen, out[a]) < IndexOf(seen, out[b])
           /\ \A a, b \in 1..Len(out) :
                (~HasNumericHint(out[a]) /\ HasNumericHint(out[b])) => b < a

\* the first two parts of C7 alone
C7_UniqueAndOrdered ==
    (call.fn = "extract_image_urls" /\ result.done) =>
        LET out == result.value
            seen == FirstSeen(call.html, call.base)
        IN /\ \A a, b \in 1..Len(out) : a # b => out[a] # out[b]
           /\ \A a, b \in 1..Len(out) :
                a < b =>
                  \/ sort_key(out[a]) < sort_key(out[b])
                  \/ /\ sort_key(out[a]) = sort_key(out[b])
                     /\ IndexOf(seen, out[a]) < IndexOf(seen, out[b])
           /\ \A k \in 1..Len(seen) : \E a \in 1..Len(out) : out[a] = seen[k]

\* the number of decimal digits of n >= 1
NumDigits(n) == CHOOSE d \in 1..9 : 10^(d - 1) <= n /\ n < 10^d

\* name is idx in decimal, zero-padded to max(3, digits of total), then ext
WellFormedName(name, idx, total, ext) ==
    LET w == Max(3, NumDigits(total)) IN
    /\ Len(name) = w + Len(ext)
    /\ \A j \in 1..w : IsDigit(name[j])
    /\ ToInt(SubSeq(name, 1, w)) = idx
    /\ SubSeq(name, w + 1, Len(name)) = ext

SampleTotals == {1, 9, 10, 99, 100, 999, 1000, 1001, 9999, 10000, 12345}

\* C8: every record carries as index the 1-based position of its URL in the
\* candidate list, its filename is that index zero-padded to max(3, digits of
\* the candidate count) plus the extension, records are in strictly increasing
\* index order, and a skipped candidate leaves a gap.
C8_RecordIndexAndName ==
    /\ \A k \in 1..Len(run.metas) :
         LET m == run.metas[k] IN
         /\ m.index \in 1..Len(run.urls)
         /\ run.urls[m.index] = m.url
         /\ WellFormedName(m.filename, m.index, Len(run.urls), infer_ext(m.url))
         /\ k < Len(run.metas) => m.index < run.metas[k + 1].index
    /\ RecordIdx(run.metas) = IdxOf({"saved", "skip"})
    /\ \A t \in SampleTotals : \A idx \in {1, t} :
         WellFormedName(FileName(idx, PadWidth(t), infer_ext(U03)), idx, t, infer_ext(U03))

\* the first candidate failed and the only record has index 2
C8_Witness ==
    /\ run.pc = "done" /\ IdxOf({"failed"}) = {1}
    /\ Len(run.metas) = 1 /\ run.metas[1].index = 2

\* the candidates the loop has dealt with, in the order it did
Outcomes ==
    LET ks == SelectSeq([k \in 1..Len(hist.events) |-> hist.events[k]],
                        LAMBDA ev : ev.e \in {"skip", "saved", "failed", "rejected"})
    IN [k \in 1..Len(ks) |-> ks[k].idx]

\* what holds of the loop at every moment: the candidates dealt with so far
\* are 1..idx-1, each once and in order, no candidate is fetched twice, and
\* the manifest is written once, last, by a run that got through the list
C9_LoopSafety ==
    /\ InDownload =>
         /\ Outcomes = [k \in 1..(run.idx - 1) |-> k]
         /\ run.idx <= run.total + 1
         /\ \A a, b \in EventsOf({"fetch"}) :
              hist.events[a].idx = hist.events[b].idx => a = b
    /\ Cardinality(EventsOf({"manifest"})) = (IF run.pc = "done" THEN 1 ELSE 0)
    /\ run.pc = "done" =>
         /\ Outcomes = [k \in 1..Len(run.urls) |-> k]
         /\ hist.events[Len(hist.events)].e = "manifest"

\* C9: whatever fetches fail and payloads are rejected, the loop does not
\* abort: every candidate is dealt with exactly once, in list order, the loop
\* ends, and the manifest is written exactly once, after the last candidate.
C9_LoopRunsToManifest ==
    /\ []C9_LoopSafety
    /\ (run.pc \in {"parsed", "loop", "fetch_image"}) ~> (run.pc = "done")

\* a finished run with one failed fetch and one rejected payload
C9_Witness ==
    /\ run.pc = "done" /\ IdxOf({"failed"}) = {1} /\ IdxOf({"rejected"}) = {2}
    /\ disk.chapter_json[1].count = 0

\* C10: a run writes an image file, the URL listing or a manifest, and issues
\* an image fetch, only if the page fetch succeeded and extraction gave at
\* least one candidate; a failed page fetch ends the run with the exception,
\* zero candidates end it with exit status 2, both with nothing written.
C10_NothingWrittenWithoutCandidates ==
    /\ (disk # hist.start \/ EventsOf({"urls_txt", "fetch", "saved", "manifest"}) # {}) =>
         /\ EventsOf({"page"}) # {}
         /\ run.urls # <<>>
    /\ run.pc = "crashed" =>
         /\ run.exit = "exception" /\ hist.events = <<>> /\ disk = hist.start
    /\ run.pc = "exited" =>
         /\ run.exit = "2" /\ run.urls = <<>> /\ disk = hist.start
         /\ EventsOf({"urls_txt", "fetch", "skip", "saved", "manifest"}) = {}
    /\ (run.exit = "2") = (run.pc = "exited")
    /\ (run.exit = "exception") = (run.pc = "crashed")
    /\ (run.pc = "fetch_page" /\ fetch.pc = "raised") =>
         (~ENABLED PageFetched /\ ENABLED PageFetchFailed)

\* a second run that found no images, after a first run that saved some
C10_Witness ==
    /\ run.pc = "exited" /\ hist.n = 2 /\ hist.start.chapter_json # Absent
    /\ DOMAIN disk.files # {}

\* C11: when overwrite is off and the target file of the candidate the loop is
\* at exists, the step the loop takes issues no fetch, leaves every file as it
\* is, appends the record (index, filename, URL, on-disk size) and the saved
\* path, and moves on to the next candidate.
C11_ExistingFileRecordedNotFetched ==
    [][(/\ run.pc = "loop" /\ run.idx <= run.total
        /\ ~run.overwrite /\ Exists(disk, CurrentName))
       => /\ fetch' = fetch /\ net' = net
          /\ disk' = disk
          /\ run'.pc = "loop" /\ run'.idx = run.idx + 1
          /\ run'.metas =
               Append(run.metas,
                      [index |-> run.idx, filename |-> CurrentName,
                       url |-> run.urls[run.idx],
                       size |-> Len(disk.files[CurrentName])])
          /\ run'.saved_paths = Append(run.saved_paths, CurrentName)
          /\ run'.urls = run.urls /\ run'.total = run.total]_vars

\* a run that recorded both candidates from files of an earlier run, which
\* hold payloads of different sizes, and fetched nothing
C11_Witness ==
    /\ run.pc = "loop" /\ run.idx = 3 /\ IdxOf({"skip"}) = {1, 2}
    /\ IdxOf({"fetch"}) = {}
    /\ disk.files = hist.start.files
    /\ run.metas[1].size # run.metas[2].size

\* the label the claim describes, for a call that has returned
LabelAsStated(c, v) ==
    LET chapter_no == IF Truthy(v.meta.episode_no_extracted)
                      THEN v.meta.episode_no_extracted ELSE c.no
        slug == SlugOf(c.ep_main, c.ep_title)
    IN IF Truthy(c.title_id) \/ Truthy(chapter_no)
       THEN Site \o <<"_">> \o c.title_id \o <<"_">> \o chapter_no
            \o (IF Truthy(slug) THEN <<"_">> \o slug ELSE <<>>)
       ELSE IF Truthy(slug) THEN slug ELSE Episode

\* C12: the label is "<site>_<titleId>_<chapterNo>" (with the slug, if there
\* is one, as a suffix) when titleId or chapterNo is available, and otherwise
\* the slug alone, or "episode" when there is no slug; chapterNo is the number
\* found in the subtitle when there is one, else the 'no' query parameter.
C12_LabelComposition ==
    (call.fn = "parse_chapter_label" /\ result.done) =>
        /\ result.value.label = LabelAsStated(call, result.value)
        /\ (Truthy(call.ep_sub) /\ \E k \in 1..Len(call.ep_sub) : IsDigit(call.ep_sub[k])) =>
              /\ Truthy(result.value.meta.episode_no_extracted)
              /\ \A k \in 1..Len(result.value.meta.episode_no_extracted) :
                   IsDigit(result.value.meta.episode_no_extracted[k])

\* C12 without the case of a slug and neither titleId nor chapterNo
C12_LabelWithIdentifiers ==
    (/\ call.fn = "parse_chapter_label" /\ result.done
     /\ (Truthy(call.title_id) \/ Truthy(call.no) \/ SubtitleNumber(call.ep_sub) # None
         \/ ~Truthy(SlugOf(call.ep_main, call.ep_title))))
    => result.value.label = LabelAsStated(call, result.value)

\* a desktop chapter-detail URL, as the claim describes it
IsDesktopDetail(u) ==
    LET p == urlparse(u) IN
    /\ p.ok
    /\ EndsWith(Lower(p.netloc), DesktopSuffix)
    /\ ~StartsWith(Lower(p.netloc), <<"m",".">>)
    /\ Contains(p.path, WebtoonDetail)

\* C13: normalize_naver_url never raises; for a desktop chapter-detail URL it
\* returns rewritten = true and a URL whose host is m.comic.naver.com and
\* whose path, parameters, query and fragment are those of the input; every
\* other URL, an already-mobile one and one that does not parse included, is
\* returned as it was given, with rewritten = false.
C13_NormalizeRewritesDesktopOnly ==
    (call.fn = "normalize_naver_url" /\ result.done) =>
        LET out == result.value
            p == urlparse(call.u)
            o == urlparse(out.url)
        IN /\ ~out.raised
           /\ IsDesktopDetail(call.u) =>
                /\ out.rewritten
                /\ o.ok /\ o.netloc = MobileHost
                /\ o.path = p.path /\ o.params = p.params
                /\ o.query = p.query /\ o.fragment = p.fragment
           /\ ~IsDesktopDetail(call.u) =>
                /\ ~out.rewritten
                /\ out.url = call.u

\* a rewritten desktop URL that carries parameters, a query and a fragment
C13_Witness ==
    /\ call.fn = "normalize_naver_url" /\ result.done /\ result.value.rewritten
    /\ urlparse(call.u).params # <<>>
    /\ urlparse(call.u).query # <<>>
    /\ urlparse(call.u).fragment # <<>>
    /\ urlparse(call.u).netloc # DesktopSuffix

\* C14: fetch waits only between a failed attempt and the next one: the k-th
\* wait is the base delay times 2^(k-1), there is one wait for every caught
\* failure but the final one, and none after a successful attempt.
C14_BackoffWaits ==
    (fetch.pc # "idle" /\ fetch.attempts >= 1) =>
        /\ \A k \in 1..Len(net.slept) : net.slept[k] = BaseDelay * 2^(k - 1)
        /\ Len(net.slept) =
             (IF net.transient < fetch.attempts THEN net.transient
              ELSE fetch.attempts - 1)
        /\ fetch.pc \in {"returned", "raised"} => Len(net.slept) = net.calls - 1
        /\ fetch.pc = "running" =>
             /\ Len(net.slept) = net.calls
             /\ fetch.i = net.calls + 1 /\ fetch.i <= fetch.attempts

\* four attempts, the fourth successful: waits of 0.5 s, 1 s and 2 s
C14_Witness ==
    /\ fetch.pc = "returned" /\ fetch.attempts = 4 /\ net.calls = 4
    /\ net.slept = <<500, 1000, 2000>>

\* the target file of candidate idx of the run
NameOf(idx) == FileName(idx, run.pad, infer_ext(run.urls[idx]))

\* the manifest of a finished run and the destination directory agree
ManifestMatchesFiles ==
    run.pc = "done" =>
        LET m == disk.chapter_json[1] IN
        /\ m.count = Len(m.images)
        /\ Len(disk.images_txt[1]) = m.count
        /\ \A k \in 1..Len(m.images) :
             /\ m.images[k].filename \in DOMAIN disk.files
             /\ Len(disk.files[m.images[k].filename]) = m.images[k].size
             /\ m.images[k].filename = NameOf(m.images[k].index)

\* the target of a candidate whose fetch failed or was rejected is as it was
\* when the run started: still absent, or there with the same bytes
FailedTargetsUntouched ==
    \A idx \in IdxOf({"failed", "rejected"}) :
        /\ (NameOf(idx) \in DOMAIN disk.files) = (NameOf(idx) \in DOMAIN hist.start.files)
        /\ NameOf(idx) \in DOMAIN disk.files =>
             disk.files[NameOf(idx)] = hist.start.files[NameOf(idx)]

\* C15: at the end of every completed run the manifest's count is the number
\* of its image records and every record names a file of the destination
\* whose length is the record's size; a step that ends a candidate as failed
\* or rejected changes no file.
C15_ManifestConsistentWithFiles ==
    /\ [](ManifestMatchesFiles /\ FailedTargetsUntouched)
    /\ [][(/\ Len(hist'.events) = Len(hist.events) + 1
            /\ hist'.events[Len(hist'.events)].e \in {"failed", "rejected"})
           => disk' = disk]_vars

\* a finished run with overwrite on: the first candidate was rejected and its
\* file of the earlier run is still there, the second was fetched and saved
C15_Witness ==
    /\ run.pc = "done" /\ run.overwrite
    /\ IdxOf({"rejected"}) = {1} /\ IdxOf({"saved"}) = {2}
    /\ NameOf(1) \in DOMAIN disk.files
    /\ disk.chapter_json[1].count = 1

====
